---- MODULE Spec2Model ----
(***************************************************************************)
(* The three page scripts of the news search front end: loadSources        *)
(* (static/js/sources.js), loadImprovements (static/js/improvements.js)    *)
(* and loadNews.  Each is an async function called once at script load.   *)
(* It writes a Loading placeholder, awaits fetch(), awaits res.json(),     *)
(* and then either renders the response into its containers or, in its     *)
(* catch block, writes an error placeholder.                               *)
(*                                                                         *)
(* JavaScript runs each stretch of code between two awaits to completion,  *)
(* so every action below is one such stretch.  A container's innerHTML is  *)
(* modelled as the sequence of its child elements.                         *)
(***************************************************************************)
EXTENDS Integers, Sequences, FiniteSets

VARIABLES
    pc,       \* per loader: where the async function is suspended
    dom,      \* per container id: the sequence of child elements
    res,      \* per loader: the local `res` (the Response fetch resolved with)
    promise   \* per loader: state of the promise the async function returned

vars == <<pc, dom, res, promise>>

(***************************************************************************)
(* Bounds of the response bodies the server is taken to send.              *)
(***************************************************************************)
MaxItems == 2
MaxSources == 2

Loaders == {"loadSources", "loadImprovements", "loadNews"}
FeedLoaders == {"loadImprovements", "loadNews"}
Containers == {"sources-agg", "improvements-list", "news-list", "sources-list"}

\* getElementById of the function's first line: the container that gets the
\* Loading placeholder and the error message.
listEl(l) ==
    CASE l = "loadSources" -> "sources-agg"
      [] l = "loadImprovements" -> "improvements-list"
      [] l = "loadNews" -> "news-list"

\* getElementById("sources-list") of the two feed loaders.
sourcesEl(l) == "sources-list"

(***************************************************************************)
(* JavaScript values, as far as JSON.parse can produce them.               *)
(***************************************************************************)
Undefined == [t |-> "undefined"]
Null == [t |-> "null"]
Str(s) == [t |-> "string", v |-> s]
Num(n) == [t |-> "number", v |-> n]
Arr(s) == [t |-> "array", v |-> s]
Obj(f) == [t |-> "object", v |-> f]
EmptyObj == Obj(<<>>)

\* ToBoolean, as used by `||` and `?:`.
Truthy(v) ==
    CASE v.t \in {"undefined", "null"} -> FALSE
      [] v.t = "string" -> v.v # ""
      [] v.t = "number" -> v.v # 0
      [] OTHER -> TRUE

Nullish(v) == v.t \in {"undefined", "null"}

\* `${v}` : ToString of a value inside a template literal.  The members
\* interpolated here are strings, null, left out or plain objects.
ToString(v) ==
    CASE v.t = "undefined" -> "undefined"
      [] v.t = "null" -> "null"
      [] v.t = "string" -> v.v
      [] v.t = "object" -> "[object Object]"

\* v.k for a non-nullish v (property access on null or undefined throws and
\* is handled by the callers).
Get(v, k) == IF v.t = "object" /\ k \in DOMAIN v.v THEN v.v[k] ELSE Undefined

\* a || b
CoalesceFalsy(a, b) == IF Truthy(a) THEN a ELSE b

\* a ?? b
Coalesce(a, b) == IF Nullish(a) THEN b ELSE a

\* a, with the `|| []` left out
OrEmptyNoFallback(a) == a

\* a || []
OrEmpty(a) == IF Truthy(a) THEN a ELSE Arr(<<>>)

(***************************************************************************)
(* Exceptions, by the text `${e}` gives them.                              *)
(***************************************************************************)
NoErr == "none"
NetworkError == "TypeError: Failed to fetch"
SyntaxErr == "SyntaxError: Unexpected token in JSON"
PropertyOfNullErr == "TypeError: Cannot read properties of null"
NotAFunctionErr == "TypeError: forEach is not a function"

(***************************************************************************)
(* Elements.                                                               *)
(***************************************************************************)
\* innerHTML = "" in place of the Loading markup
LoadingPlaceholderBlank(l) == <<>>

LoadingPlaceholder(l) ==
    <<[tag |-> IF l = "loadSources" THEN "li" ELSE "p", text |-> "Loading..."]>>

ErrorPrefix(l) ==
    CASE l = "loadSources" -> "Failed to load sources."
      [] l = "loadImprovements" -> "Failed to load improvements."
      [] l = "loadNews" -> "Failed to load news."

\* the message without ${e}
ErrorPlaceholderNoReason(l, e) ==
    <<[tag |-> IF l = "loadSources" THEN "li" ELSE "p",
       text |-> ErrorPrefix(l), err |-> NoErr]>>

ErrorPlaceholder(l, e) ==
    <<[tag |-> IF l = "loadSources" THEN "li" ELSE "p",
       text |-> ErrorPrefix(l), err |-> e]>>

LinkLabel(l) == IF l = "loadImprovements" THEN "Read documentation" ELSE "Open article"

\* The div.item built for one element of data.items.  Reading a property of
\* null or undefined throws.
WhyBlock(l, item) ==
    IF l = "loadImprovements" /\ Truthy(Get(item, "why"))
    THEN <<[tag |-> "p", strong |-> "Why it matters:",
            text |-> ToString(Get(item, "why"))]>>
    ELSE <<>>

LinkBlock(l, item) ==
    IF Truthy(Get(item, "link"))
    THEN <<[tag |-> "p", class |-> "link", href |-> ToString(Get(item, "link")),
            text |-> LinkLabel(l)]>>
    ELSE <<>>

RenderItem(l, item) ==
    IF Nullish(item)
    THEN [thrown |-> PropertyOfNullErr]
    ELSE [thrown |-> NoErr,
          el |-> [tag |-> "div", class |-> "item",
                  children |->
                      <<[tag |-> "h3",
                         text |-> ToString(Coalesce(Get(item, "headline"),
                                                    Str("Untitled")))],
                        [tag |-> "p",
                         text |-> ToString(Coalesce(Get(item, "summary"), Str("")))]>>
                      \o WhyBlock(l, item) \o LinkBlock(l, item)]]

\* The li built by loadSources for one element of data.sources.
RenderSourceEntry(s) ==
    IF Nullish(s)
    THEN [thrown |-> PropertyOfNullErr]
    ELSE [thrown |-> NoErr,
          el |-> [tag |-> "li", from |-> ToString(Get(s, "from")),
                  href |-> ToString(Get(s, "url")),
                  text |-> ToString(Get(s, "url"))]]

\* The li built by the feed loaders for one element of data.sources.
RenderSourceLink(url) ==
    [thrown |-> NoErr,
     el |-> [tag |-> "li", href |-> ToString(url), text |-> ToString(url)]]

\* The forEach callback of the primary region and of the sources region.
RenderPrimary(l, x) == IF l = "loadSources" THEN RenderSourceEntry(x) ELSE RenderItem(l, x)

RenderSource(l, x) == RenderSourceLink(x)

\* container.prepend(el)
PrependChild(children, el) == <<el>> \o children

\* container.appendChild(el)
AppendChild(children, el) == Append(children, el)

\* arr.forEach(x => container.appendChild(render(x))) on a container that
\* holds `children`: the children afterwards, and the exception that ended
\* the loop early, if any.
RECURSIVE ForEach(_, _, _, _)
ForEach(l, region, arr, children) ==
    IF arr = <<>>
    THEN [children |-> children, thrown |-> NoErr]
    ELSE LET r == IF region = "primary" THEN RenderPrimary(l, Head(arr))
                  ELSE RenderSource(l, Head(arr))
         IN  IF r.thrown # NoErr
             THEN [children |-> children, thrown |-> r.thrown]
             ELSE ForEach(l, region, Tail(arr), AppendChild(children, r.el))

\* The response member the primary region is rendered from.
PrimaryKey(l) == IF l = "loadSources" THEN "sources" ELSE "items"

\* container.innerHTML = ""; (data[key] || []).forEach(...) : the page
\* afterwards and the exception thrown, if any.
RenderRegion(l, region, c, data, key, d) ==
    LET cleared == [d EXCEPT ![c] = <<>>]
    IN  IF Nullish(data)
        THEN [dom |-> cleared, thrown |-> PropertyOfNullErr]
        ELSE LET arr == OrEmpty(Get(data, key))
             IN  IF arr.t # "array"
                 THEN [dom |-> cleared, thrown |-> NotAFunctionErr]
                 ELSE LET r == ForEach(l, region, arr.v, <<>>)
                      IN  [dom |-> [cleared EXCEPT ![c] = r.children],
                           thrown |-> r.thrown]

\* The statements of the try block that follow `await res.json()`.
TryBody(l, data, d) ==
    LET p == RenderRegion(l, "primary", listEl(l), data, PrimaryKey(l), d)
    IN  IF p.thrown # NoErr \/ l = "loadSources"
        THEN p
        ELSE RenderRegion(l, "sources", sourcesEl(l), data, "sources", p.dom)

\* innerHTML += in the catch block
CatchAppends(l, e, d) ==
    [dom |-> [d EXCEPT ![listEl(l)] = d[listEl(l)] \o ErrorPlaceholder(l, e)],
     promise |-> "fulfilled"]

\* the catch block writing the message into every container of the loader
CatchWritesBoth(l, e, d) ==
    [dom |-> [c \in Containers |->
                 IF c = listEl(l) \/ (l # "loadSources" /\ c = sourcesEl(l))
                 THEN ErrorPlaceholder(l, e) ELSE d[c]],
     promise |-> "fulfilled"]

\* The catch block: the page afterwards, and how the async function's
\* promise settles.
Catch(l, e, d) ==
    [dom |-> [d EXCEPT ![listEl(l)] = ErrorPlaceholder(l, e)],
     promise |-> "fulfilled"]

(***************************************************************************)
(* Responses.                                                              *)
(***************************************************************************)
NoRes == [none |-> TRUE]
Statuses == {200, 500}

InvalidBody == [json |-> FALSE]
JsonBody(v) == [json |-> TRUE, value |-> v]

\* res.json()
JsonParse(body) ==
    IF body.json THEN [thrown |-> NoErr, value |-> body.value]
    ELSE [thrown |-> SyntaxErr]

SeqsUpTo(S, n) == UNION {[1..k -> S] : k \in 0..n}

\* An object literal; a member given as Undefined is left out.
ObjOf(f) == Obj([k \in {k \in DOMAIN f : f[k] # Undefined} |-> f[k]])

\* What a member of an item may be: left out, null, empty or a text.  The
\* why member is read by loadImprovements alone.
FieldValues(k) == {Undefined, Null, Str(""), Str(k)}
WhyValues(l) == IF l = "loadImprovements" THEN FieldValues("why") ELSE {Undefined}

AllItems(l) ==
    {ObjOf([headline |-> h, summary |-> s, why |-> w, link |-> k]) :
        h \in FieldValues("headline"), s \in FieldValues("summary"),
        w \in WhyValues(l), k \in FieldValues("link")}

ItemA == Obj([headline |-> Str("headline"), summary |-> Str("summary"),
              why |-> Str("why"), link |-> Str("link")])
ItemB == Obj([headline |-> Str("second")])
ItemPool == {Null, ItemA, ItemB}

Urls == {Str("http://a.test"), Str("http://b.test")}

NotASequence == Num(5)

FeedItems(l) ==
    {Undefined, Null, NotASequence}
    \cup {Arr(s) : s \in SeqsUpTo(ItemPool, MaxItems)}
    \cup {Arr(<<i>>) : i \in AllItems(l)}

FeedSources ==
    {Undefined, Null, NotASequence} \cup {Arr(s) : s \in SeqsUpTo(Urls, MaxSources)}

SourceEntries ==
    {Null, EmptyObj,
     Obj([from |-> Str("A"), url |-> Str("http://a.test")]),
     Obj([from |-> Str("B"), url |-> Str("http://b.test")])}

SourcesData ==
    {Null} \cup {ObjOf([sources |-> s]) :
                    s \in {Undefined, Null, NotASequence}
                          \cup {Arr(q) : q \in SeqsUpTo(SourceEntries, MaxSources)}}

FeedData(l) ==
    {Null} \cup {ObjOf([items |-> i, sources |-> s]) : i \in FeedItems(l), s \in FeedSources}

Data(l) == IF l = "loadSources" THEN SourcesData ELSE FeedData(l)

\* Every response of the bounded domain: a page that runs one loader.
ViewResponses(l) ==
    {[status |-> s, body |-> b] :
        s \in Statuses, b \in {InvalidBody} \cup {JsonBody(v) : v \in Data(l)}}

\* The responses of the page that runs all three loaders at once.
PageData(l) ==
    IF l = "loadSources"
    THEN {EmptyObj,
          Obj([sources |-> Arr(<<Obj([from |-> Str("A"), url |-> Str("http://a.test")]),
                                 Obj([from |-> Str("B"), url |-> Str("http://b.test")])>>)]),
          Obj([sources |-> Arr(<<Null>>)])}
    ELSE {Null, EmptyObj,
          Obj([items |-> Arr(<<ItemA, ItemB>>),
               sources |-> Arr(<<Str("http://a.test"), Str("http://b.test")>>)]),
          Obj([items |-> Arr(<<ItemB>>), sources |-> Arr(<<Str("http://b.test")>>)]),
          Obj([items |-> Arr(<<ItemA>>), sources |-> NotASequence]),
          Obj([items |-> Arr(<<ItemB, Null>>)])}

PageResponses(l) ==
    {[status |-> s, body |-> b] :
        s \in Statuses, b \in {InvalidBody} \cup {JsonBody(v) : v \in PageData(l)}}

\* What the host page's markup puts into a container.
PageMarkup == {<<>>, <<[tag |-> "li", text |-> "static"]>>}

(***************************************************************************)
(* The loaders.                                                            *)
(***************************************************************************)
\* The page that includes all three scripts.
Init ==
    /\ pc = [l \in Loaders |-> "init"]
    /\ dom \in [Containers -> PageMarkup]
    /\ res = [l \in Loaders |-> NoRes]
    /\ promise = [l \in Loaders |-> "none"]

\* A page that includes one of the scripts.
InitView ==
    /\ \E only \in Loaders : pc = [l \in Loaders |-> IF l = only THEN "init" ELSE "absent"]
    /\ dom \in [Containers -> PageMarkup]
    /\ res = [l \in Loaders |-> NoRes]
    /\ promise = [l \in Loaders |-> "none"]

\* The call at the end of the script, up to `await fetch(...)`.
Invoke(l) ==
    /\ pc[l] = "init"
    /\ dom' = [dom EXCEPT ![listEl(l)] = LoadingPlaceholder(l)]
    /\ pc' = [pc EXCEPT ![l] = "fetching"]
    /\ promise' = [promise EXCEPT ![l] = "pending"]
    /\ UNCHANGED res

\* fetch() resolves with the Response r, whatever its status; the function
\* goes on to `await res.json()`.
FetchResolved(l, r) ==
    /\ pc[l] = "fetching"
    /\ res' = [res EXCEPT ![l] = r]
    /\ pc' = [pc EXCEPT ![l] = "parsing"]
    /\ UNCHANGED <<dom, promise>>

FetchResolve(l) ==
    /\ pc[l] = "fetching"
    /\ \E r \in PageResponses(l) : FetchResolved(l, r)

FetchResolveView(l) ==
    /\ pc[l] = "fetching"
    /\ \E r \in ViewResponses(l) : FetchResolved(l, r)

\* fetch() rejects: the catch block runs.
FetchReject(l) ==
    /\ pc[l] = "fetching"
    /\ LET c == Catch(l, NetworkError, dom)
       IN  dom' = c.dom /\ promise' = [promise EXCEPT ![l] = c.promise]
    /\ pc' = [pc EXCEPT ![l] = "done"]
    /\ UNCHANGED res

\* res.json() resolves with the parsed body: the rest of the try block
\* runs, and the catch block if it throws.
JsonResolve(l) ==
    /\ pc[l] = "parsing"
    /\ JsonParse(res[l].body).thrown = NoErr
    /\ LET t == TryBody(l, JsonParse(res[l].body).value, dom)
           c == Catch(l, t.thrown, t.dom)
       IN  IF t.thrown = NoErr
           THEN dom' = t.dom /\ promise' = [promise EXCEPT ![l] = "fulfilled"]
           ELSE dom' = c.dom /\ promise' = [promise EXCEPT ![l] = c.promise]
    /\ pc' = [pc EXCEPT ![l] = "done"]
    /\ UNCHANGED res

\* res.json() rejects: the catch block runs.
JsonReject(l) ==
    /\ pc[l] = "parsing"
    /\ JsonParse(res[l].body).thrown # NoErr
    /\ LET c == Catch(l, JsonParse(res[l].body).thrown, dom)
       IN  dom' = c.dom /\ promise' = [promise EXCEPT ![l] = c.promise]
    /\ pc' = [pc EXCEPT ![l] = "done"]
    /\ UNCHANGED res

Next ==
    \E l \in Loaders :
        \/ Invoke(l)
        \/ FetchResolve(l)
        \/ FetchReject(l)
        \/ JsonResolve(l)
        \/ JsonReject(l)

Spec == Init /\ [][Next]_vars

NextView ==
    \E l \in Loaders :
        \/ Invoke(l)
        \/ FetchResolveView(l)
        \/ FetchReject(l)
        \/ JsonResolve(l)
        \/ JsonReject(l)

SpecView == InitView /\ [][NextView]_vars

(***************************************************************************)
(* Vocabulary of the properties.                                           *)
(***************************************************************************)
Errors == {NetworkError, SyntaxErr, PropertyOfNullErr, NotAFunctionErr}

\* The containers a loader looks up.
Targets(l) == IF l = "loadSources" THEN {listEl(l)} ELSE {listEl(l), sourcesEl(l)}

\* The content is the single Loading placeholder.
ShowsLoading(content) ==
    /\ Len(content) = 1
    /\ DOMAIN content[1] = {"tag", "text"}
    /\ content[1].text = "Loading..."

\* The content is the single error message of loader l, carrying reason e.
ShowsErrorOf(l, content, e) ==
    /\ Len(content) = 1
    /\ DOMAIN content[1] = {"tag", "text", "err"}
    /\ content[1].text = ErrorPrefix(l)
    /\ content[1].err = e

ShowsError(l, content) == \E e \in Errors : ShowsErrorOf(l, content, e)

\* Response.ok : a status in the 2xx range.
Ok(r) == r.status \in 200..299

Settled(l) == promise[l] \in {"fulfilled", "rejected"}

\* The loader got a response and its body parsed.
Parsed(l) == res[l] # NoRes /\ res[l].body.json
data(l) == res[l].body.value

\* The sequence a response member stands for: the array itself, and the
\* empty sequence when the member is absent or null.
SeqOf(v, key) == IF Get(v, key).t = "array" THEN Get(v, key).v ELSE <<>>

\* One entry per element, in order.
EntriesOf(l, region, s) ==
    [i \in 1..Len(s) |->
        IF region = "primary" THEN RenderPrimary(l, s[i]).el ELSE RenderSource(l, s[i]).el]

\* A response of the documented shape: an object whose sequence members
\* are each absent, null or an array, the entries that are read by property
\* being objects.
IsSeqOrMissing(v) == Nullish(v) \/ v.t = "array"
WellFormed(l, v) ==
    /\ v.t = "object"
    /\ IsSeqOrMissing(Get(v, PrimaryKey(l)))
    /\ \A i \in 1..Len(SeqOf(v, PrimaryKey(l))) : ~Nullish(SeqOf(v, PrimaryKey(l))[i])
    /\ l # "loadSources" => IsSeqOrMissing(Get(v, "sources"))

\* The primary container holds the whole primary sequence of the response.
FullRender(l) ==
    /\ Parsed(l)
    /\ WellFormed(l, data(l))
    /\ dom[listEl(l)] = EntriesOf(l, "primary", SeqOf(data(l), PrimaryKey(l)))

\* C1: once a loader's promise has settled, its primary container does not
\* show the Loading placeholder and holds either the full rendering of the
\* response or the single error placeholder, and not both.
C1_SettledIsRenderOrError ==
    \A l \in Loaders :
        Settled(l) =>
            /\ ~ShowsLoading(dom[listEl(l)])
            /\ FullRender(l) \/ ShowsError(l, dom[listEl(l)])
            /\ ~(FullRender(l) /\ ShowsError(l, dom[listEl(l)]))

\* C1 witness: a loader settled after its rendering loop threw on the
\* second entry, the first one already appended.
C1_Witness ==
    \E l \in Loaders :
        /\ Settled(l) /\ Parsed(l) /\ data(l).t = "object"
        /\ Len(SeqOf(data(l), PrimaryKey(l))) = 2
        /\ ~Nullish(SeqOf(data(l), PrimaryKey(l))[1])
        /\ Nullish(SeqOf(data(l), PrimaryKey(l))[2])
        /\ ShowsErrorOf(l, dom[listEl(l)], PropertyOfNullErr)

\* C3: a response with a non-success status takes the failure path, whatever
\* its body: the container shows the single error message and no entries.
C3_NonSuccessStatusIsError ==
    \A l \in Loaders :
        (pc[l] = "done" /\ res[l] # NoRes /\ ~Ok(res[l]))
            => ShowsError(l, dom[listEl(l)])

\* C4: after a rejected fetch or a body that is not JSON, the primary
\* container holds exactly one error element that carries the description
\* of the failure, and the loader's promise is fulfilled, never rejected.
C4_FailureIsShownAndSwallowed ==
    \A l \in Loaders :
        /\ promise[l] # "rejected"
        /\ (pc[l] = "done" /\ res[l] = NoRes)
               => /\ ShowsErrorOf(l, dom[listEl(l)], NetworkError)
                  /\ promise[l] = "fulfilled"
        /\ (pc[l] = "done" /\ res[l] # NoRes /\ ~res[l].body.json)
               => /\ ShowsErrorOf(l, dom[listEl(l)], SyntaxErr)
                  /\ promise[l] = "fulfilled"

\* C4 witness: a loader finished on a body that did not parse.
C4_Witness ==
    \E l \in Loaders :
        /\ pc[l] = "done" /\ res[l] # NoRes /\ ~res[l].body.json
        /\ ShowsErrorOf(l, dom[listEl(l)], SyntaxErr)

\* C2: the step that issues the request leaves every target container of the
\* loader showing the single Loading placeholder.
C2_EveryTargetShowsLoading ==
    [][\A l \in Loaders :
          (pc[l] = "init" /\ pc'[l] = "fetching")
              => \A c \in Targets(l) : ShowsLoading(dom'[c])]_vars

\* Both regions of a well-formed response as the loader renders them.
RegionsRendered(l) ==
    /\ dom[listEl(l)] = EntriesOf(l, "primary", SeqOf(data(l), PrimaryKey(l)))
    /\ l \in FeedLoaders
           => dom[sourcesEl(l)] = EntriesOf(l, "sources", SeqOf(data(l), "sources"))

\* The step in which loader l, having parsed a response of the documented
\* shape, runs the rest of its try block.
RendersWellFormed(l) ==
    /\ pc[l] = "parsing" /\ pc'[l] = "done"
    /\ res[l].body.json /\ WellFormed(l, data(l))

SequenceKeys(l) == IF l = "loadSources" THEN {"sources"} ELSE {"items", "sources"}
RegionOfKey(l, k) == IF k = PrimaryKey(l) THEN listEl(l) ELSE sourcesEl(l)

C7_RegionsAreTheLoadersOwn ==
    \A l \in FeedLoaders :
        (pc[l] = "done" /\ Parsed(l) /\ WellFormed(l, data(l)))
            => dom[sourcesEl(l)] = EntriesOf(l, "sources", SeqOf(data(l), "sources"))

HasWhyBlock(block) ==
    \E j \in 1..Len(block.children) : "strong" \in DOMAIN block.children[j]
HasLinkBlock(block) ==
    \E j \in 1..Len(block.children) : "href" \in DOMAIN block.children[j]

\* The items of the response of feed loader l, once it rendered them.
RenderedItems(l) ==
    IF pc[l] = "done" /\ Parsed(l) /\ WellFormed(l, data(l))
    THEN 1..Len(SeqOf(data(l), "items")) ELSE {}
item(l, i) == SeqOf(data(l), "items")[i]
block(l, i) == dom[listEl(l)][i]

\* A member counts as missing when it is left out or null.
Missing(v, k) == Nullish(Get(v, k))

\* C8, as claimed: a missing headline shows "Untitled" and any other the
\* headline, a missing summary shows an empty paragraph, and the why and
\* link blocks are there exactly when the item has the member.
C8_BlocksFollowPresence ==
    \A l \in FeedLoaders :
        /\ RenderedItems(l) # {} => ~ShowsError(l, dom[listEl(l)])
        /\ \A i \in RenderedItems(l) :
            /\ block(l, i).children[1].text =
                   IF Missing(item(l, i), "headline")
                   THEN "Untitled" ELSE ToString(Get(item(l, i), "headline"))
            /\ Missing(item(l, i), "summary") => block(l, i).children[2].text = ""
            /\ HasWhyBlock(block(l, i)) <=>
                   (l = "loadImprovements" /\ ~Missing(item(l, i), "why"))
            /\ HasLinkBlock(block(l, i)) <=> ~Missing(item(l, i), "link")

\* C8, amended: a missing headline shows "Untitled" and any other the
\* headline, a missing summary shows an empty paragraph and any other the
\* summary, and the why and link blocks are there exactly when the member is
\* truthy: not missing and not the empty string.
C8_BlocksFollowTruthiness ==
    \A l \in FeedLoaders :
        /\ RenderedItems(l) # {} => ~ShowsError(l, dom[listEl(l)])
        /\ \A i \in RenderedItems(l) :
            /\ Len(block(l, i).children) >= 2
            /\ block(l, i).children[1].text =
                   IF Missing(item(l, i), "headline")
                   THEN "Untitled" ELSE ToString(Get(item(l, i), "headline"))
            /\ block(l, i).children[2].text =
                   IF Missing(item(l, i), "summary")
                   THEN "" ELSE ToString(Get(item(l, i), "summary"))
            /\ HasWhyBlock(block(l, i)) <=>
                   (l = "loadImprovements" /\ Truthy(Get(item(l, i), "why")))
            /\ HasLinkBlock(block(l, i)) <=> Truthy(Get(item(l, i), "link"))

\* C8 witness: loadImprovements rendered an item without headline whose why
\* is the empty string and whose link is null.
C8_Witness ==
    /\ 1 \in RenderedItems("loadImprovements")
    /\ "headline" \notin DOMAIN item("loadImprovements", 1).v
    /\ Get(item("loadImprovements", 1), "why") = Str("")
    /\ Get(item("loadImprovements", 1), "link") = Null
    /\ block("loadImprovements", 1).children[1].text = "Untitled"
    /\ Len(block("loadImprovements", 1).children) = 2

\* C9: while the request is pending or the body unparsed the primary
\* container shows exactly the Loading placeholder; a failed parse takes it
\* from Loading straight to the error message; and it gets any other content
\* only in the step that follows a successful parse.
C9_ClearedOnlyAfterParse ==
    [][\A l \in Loaders :
          /\ pc'[l] \in {"fetching", "parsing"} => ShowsLoading(dom'[listEl(l)])
          /\ (pc[l] = "parsing" /\ ~res[l].body.json /\ pc'[l] = "done")
                 => /\ ShowsLoading(dom[listEl(l)])
                    /\ ShowsErrorOf(l, dom'[listEl(l)], SyntaxErr)
          /\ (/\ dom'[listEl(l)] # dom[listEl(l)]
              /\ ~ShowsLoading(dom'[listEl(l)])
              /\ ~ShowsError(l, dom'[listEl(l)]))
                 => pc[l] = "parsing" /\ res[l].body.json /\ pc'[l] = "done"]_vars

\* C9 witness: a loader whose body did not parse shows the error message
\* while another loader is still waiting behind its Loading placeholder.
C9_Witness ==
    \E l, k \in Loaders :
        /\ pc[l] = "done" /\ res[l] # NoRes /\ ~res[l].body.json
        /\ ShowsErrorOf(l, dom[listEl(l)], SyntaxErr)
        /\ pc[k] = "parsing" /\ ShowsLoading(dom[listEl(k)])

\* The primary sequence of the response can be rendered without throwing.
PrimaryRenders(l) ==
    /\ res[l].body.json
    /\ data(l).t = "object"
    /\ IsSeqOrMissing(Get(data(l), "items"))
    /\ \A i \in 1..Len(SeqOf(data(l), "items")) : ~Nullish(SeqOf(data(l), "items")[i])

\* C10: no step of a feed loader other than the one that follows a
\* successful parse and populates the item region changes sources-list; in
\* particular a rejected fetch and a failed parse leave it as it was, and no
\* loader's Loading placeholder or error message is ever put into it.
C10_SourcesListOnlyOnSuccess ==
    [][/\ \A l \in Loaders :
            (pc'[l] # pc[l] /\ ~(l \in FeedLoaders /\ pc[l] = "parsing" /\ PrimaryRenders(l)))
                => dom'["sources-list"] = dom["sources-list"]
       /\ dom'["sources-list"] # dom["sources-list"]
            => /\ ~ShowsLoading(dom'["sources-list"])
               /\ \A l \in Loaders : ~ShowsError(l, dom'["sources-list"])]_vars

\* C10 witness: one feed loader's fetch was rejected, the other's body did
\* not parse, and sources-list still holds the page's own markup.
C10_Witness ==
    /\ pc["loadImprovements"] = "done" /\ res["loadImprovements"] = NoRes
    /\ pc["loadNews"] = "done" /\ res["loadNews"] # NoRes
    /\ ~res["loadNews"].body.json
    /\ ShowsError("loadNews", dom["news-list"])
    /\ dom["sources-list"] = <<[tag |-> "li", text |-> "static"]>>

====
